---------------------------- MODULE Spec2Model ----------------------------
(***************************************************************************)
(* A model of the go-wpa control-interface client: the transport           *)
(* (wpatest.TestConn), the daemon (wpatest.WPAProcessMock), the message    *)
(* demultiplexer (WPACtrl: receiveLoop, Command, OkCommand, FailCommand,   *)
(* Close) and the event classifier (WPASupplicantCtrl).                    *)
(*                                                                         *)
(* Text is modelled byte by byte: a Go string or []byte is a sequence of   *)
(* one-character strings, so that TrimSpace, HasPrefix, Split and the      *)
(* slicing of the reader's buffer are computed as the code computes them.  *)
(***************************************************************************)
EXTENDS Integers, Sequences, FiniteSets, TLC

(***************************************************************************)
(* Bounds of the model.                                                    *)
(***************************************************************************)
\* calls the caller thread makes on the WPACtrl
MaxCalls == 2
\* datagrams the daemon sends on its own (SendUnsol) under Spec
MaxUnsol == 1
\* datagrams the daemon sends on its own (SendUnsol) under SpecEvents
MaxEvents == 2
\* datagrams the daemon sends on its own (SendUnsol) under SpecClassify
MaxClassify == 1
\* the largest reason code among the disconnect messages
MaxCode == 46
\* the calls of WPASupplicantCtrl the caller thread makes
MaxNetCalls == 4
\* the calls of ListNetworks against expected replies
MaxListCalls == 3
\* events the daemon sends in a burst that nobody consumes: one more than
\* the event queue holds
MaxBurst == 101

(***************************************************************************)
(* Program constants.                                                      *)
(***************************************************************************)
\* buf := make([]byte, 4096)
BufLen == 4096
\* solicited: make(chan string, 1)
SolicitedCap == 1
\* unsolicited: make(chan string, 100)
UnsolicitedCap == 100
\* inmsgs / outmsgs: make(chan []byte, 100)
ConnCap == 100

(***************************************************************************)
(* Text literals of the source.                                            *)
(***************************************************************************)
sPING ==
    <<"P", "I", "N", "G">>
sATTACH ==
    <<"A", "T", "T", "A", "C", "H">>
sDETACH ==
    <<"D", "E", "T", "A", "C", "H">>
sREMOVE_NETWORK ==
    <<"R", "E", "M", "O", "V", "E", "_", "N", "E", "T", "W", "O", "R", "K">>
sLIST_NETWORKS ==
    <<"L", "I", "S", "T", "_", "N", "E", "T", "W", "O", "R", "K", "S">>
sADD_NETWORK ==
    <<"A", "D", "D", "_", "N", "E", "T", "W", "O", "R", "K">>
sSET_NETWORK ==
    <<"S", "E", "T", "_", "N", "E", "T", "W", "O", "R", "K">>
sSsid ==
    <<"s", "s", "i", "d">>
sPsk ==
    <<"p", "s", "k">>
sListHeader ==
    <<"n", "e", "t", "w", "o", "r", "k", " ", "i", "d", " ", "/", " ", "s",
      "s", "i", "d", " ", "/", " ", "b", "s", "s", "i", "d", " ", "/", " ",
      "f", "l", "a", "g", "s">>
sPONG ==
    <<"P", "O", "N", "G">>
sOK ==
    <<"O", "K">>
sFAIL ==
    <<"F", "A", "I", "L">>
sUNKNOWN_COMMAND ==
    <<"U", "N", "K", "N", "O", "W", "N", "_", "C", "O", "M", "M", "A", "N",
      "D", ":", " ">>
sCmdTimeout ==
    <<"c", "m", "d", " ", "t", "i", "m", "e", "o", "u", "t">>
sFailed ==
    <<"f", "a", "i", "l", "e", "d">>
sCommandError ==
    <<"c", "o", "m", "m", "a", "n", "d", " ", "e", "r", "r", "o", "r", ":",
      " ">>
sClosed ==
    <<"c", "l", "o", "s", "e", "d">>
pCONNECTED ==
    <<"C", "T", "R", "L", "-", "E", "V", "E", "N", "T", "-", "C", "O", "N",
      "N", "E", "C", "T", "E", "D">>
pDISCONNECTED ==
    <<"C", "T", "R", "L", "-", "E", "V", "E", "N", "T", "-", "D", "I", "S",
      "C", "O", "N", "N", "E", "C", "T", "E", "D">>
pNETWORK_NOT_FOUND ==
    <<"C", "T", "R", "L", "-", "E", "V", "E", "N", "T", "-", "N", "E", "T",
      "W", "O", "R", "K", "-", "N", "O", "T", "-", "F", "O", "U", "N", "D">>
pSCAN_FAILED ==
    <<"C", "T", "R", "L", "-", "E", "V", "E", "N", "T", "-", "S", "C", "A",
      "N", "-", "F", "A", "I", "L", "E", "D">>
pSCAN_STARTED ==
    <<"C", "T", "R", "L", "-", "E", "V", "E", "N", "T", "-", "S", "C", "A",
      "N", "-", "S", "T", "A", "R", "T", "E", "D">>
pSCAN_RESULTS ==
    <<"C", "T", "R", "L", "-", "E", "V", "E", "N", "T", "-", "S", "C", "A",
      "N", "-", "R", "E", "S", "U", "L", "T", "S">>
pBSS_ADDED ==
    <<"C", "T", "R", "L", "-", "E", "V", "E", "N", "T", "-", "B", "S", "S",
      "-", "A", "D", "D", "E", "D">>
sReasonEq ==
    <<"r", "e", "a", "s", "o", "n", "=">>

\* the zero byte of a freshly made buffer
NUL == "NUL"

\* the characters strings.TrimSpace removes
WhiteSpace == {" ", "\n", "\t", "\r"}

Digits == {"0", "1", "2", "3", "4", "5", "6", "7", "8", "9"}

(***************************************************************************)
(* Library functions, computed as the Go library computes them.            *)
(***************************************************************************)
Min(a, b) == IF a < b THEN a ELSE b

RECURSIVE TrimLeft(_)
TrimLeft(s) ==
    IF s # <<>> /\ Head(s) \in WhiteSpace THEN TrimLeft(Tail(s)) ELSE s

RECURSIVE TrimRight(_)
TrimRight(s) ==
    IF s # <<>> /\ s[Len(s)] \in WhiteSpace
    THEN TrimRight(SubSeq(s, 1, Len(s) - 1))
    ELSE s

\* strings.TrimSpace
TrimSpace(s) == TrimRight(TrimLeft(s))

\* strings.HasPrefix
HasPrefix(s, prefix) ==
    Len(s) >= Len(prefix) /\ SubSeq(s, 1, Len(prefix)) = prefix

\* strings.Index, 1-based; 0 when sep does not occur in s
Index(s, sep) ==
    LET at == {i \in 1..(Len(s) - Len(sep) + 1) :
                   SubSeq(s, i, i + Len(sep) - 1) = sep}
    IN  IF at = {} THEN 0 ELSE CHOOSE i \in at : \A j \in at : i <= j

\* strings.Split, for a non-empty separator
RECURSIVE Split(_, _)
Split(s, sep) ==
    LET i == Index(s, sep)
    IN  IF i = 0
        THEN <<s>>
        ELSE <<SubSeq(s, 1, i - 1)>> \o Split(SubSeq(s, i + Len(sep), Len(s)), sep)

\* strconv.Itoa and fmt.Sprintf("%d", i), for i >= 0
RECURSIVE Itoa(_)
Itoa(i) ==
    LET digit == <<"0", "1", "2", "3", "4", "5", "6", "7", "8", "9">>
    IN  IF i < 10 THEN <<digit[i + 1]>>
        ELSE Itoa(i \div 10) \o <<digit[(i % 10) + 1]>>

\* strconv.Atoi: [ok, v]; ok is FALSE (an error) unless s is an optional
\* sign and then digits only
Atoi(s) ==
    LET signed == s # <<>> /\ s[1] \in {"+", "-"}
        ds == IF signed THEN Tail(s) ELSE s
        val[i \in 0..Len(ds)] ==
            IF i = 0 THEN 0
            ELSE 10 * val[i - 1]
                   + (CHOOSE d \in 0..9 : Itoa(d) = <<ds[i]>>)
    IN  IF ds = <<>> \/ \E i \in 1..Len(ds) : ds[i] \notin Digits
        THEN [ok |-> FALSE, v |-> 0]
        ELSE [ok |-> TRUE,
              v |-> IF signed /\ s[1] = "-" THEN 0 - val[Len(ds)]
                    ELSE val[Len(ds)]]

\* strings.Trim(s, cutset), for a cutset of one character c
RECURSIVE Trim(_, _)
Trim(s, c) ==
    IF s # <<>> /\ Head(s) = c THEN Trim(Tail(s), c)
    ELSE IF s # <<>> /\ s[Len(s)] = c THEN Trim(SubSeq(s, 1, Len(s) - 1), c)
    ELSE s

\* strings.Join
RECURSIVE Join(_, _)
Join(elems, sep) ==
    IF elems = <<>> THEN <<>>
    ELSE IF Len(elems) = 1 THEN elems[1]
    ELSE elems[1] \o sep \o Join(Tail(elems), sep)

(***************************************************************************)
(* Errors.  A Go error is a value with an identity and a text: ErrTimeout  *)
(* is a package variable compared by identity; errors.New and fmt.Errorf   *)
(* make fresh values.  NoErr is nil.                                       *)
(***************************************************************************)
NoErr == [kind |-> "nil", text |-> <<>>]

\* var ErrTimeout = errors.New("cmd timeout")
ErrTimeout == [kind |-> "ErrTimeout", text |-> sCmdTimeout]

\* errors.New(text)
ErrorsNew(text) == [kind |-> "errors.New", text |-> text]

\* fmt.Errorf("command error: %v", err)
CommandError(err) == [kind |-> "fmt.Errorf", text |-> sCommandError \o err.text]

\* the error a closed connection gives
ErrConnClosed == ErrorsNew(sClosed)

(***************************************************************************)
(* State.                                                                  *)
(*                                                                         *)
(* A datagram in flight is [b, id, re]: b its bytes; id and re are history *)
(* fields the program does not see (id numbers the daemon's datagrams in   *)
(* the order it wrote them; re is the number of the Command call whose     *)
(* command the datagram answers, 0 for a datagram the daemon sent on its   *)
(* own).  A command in flight is [b, call].                                *)
(***************************************************************************)
VARIABLES
    inmsgs,       \* TestConn.inmsgs of the client: datagrams daemon -> client
    outmsgs,      \* TestConn.outmsgs of the client: commands client -> daemon
    connClosed,   \* the connection has been closed (by Close or by the peer)
    unsolConn,    \* WPAProcessMock.unsolConn is set (ATTACH was processed)
    nsent,        \* datagrams the daemon has written so far
    nunsol,       \* of these, datagrams sent by SendUnsol
    networks,     \* WPAProcessMock.networks
    expect,       \* WPAProcessMock.expect
    mockExited,   \* the daemon's readLoop has returned
    solicited,    \* WPACtrl.solicited: the reply queue
    unsolicited,  \* WPACtrl.unsolicited: the event queue
    solClosed,    \* close(wc.solicited) has run
    unsolClosed,  \* close(wc.unsolicited) has run
    ctxDone,      \* wc.cancel() has run
    rpc,          \* where receiveLoop stands
    buf,          \* receiveLoop's buf: the bytes written so far (the rest is 0)
    n,            \* receiveLoop's n
    rerr,         \* receiveLoop's err is not nil
    cur,          \* history: id and re of the datagram last read into buf
    panicking,    \* receiveLoop has panicked and is running its deferred calls
    crashed,      \* the process has exited on the unrecovered panic
    cpc,          \* where the caller thread stands
    call,         \* the call the caller thread is in or was last in
    ncalls,       \* calls made so far
    ret,          \* what the last returned call returned
    hist,         \* history: the calls of WPASupplicantCtrl that returned
    clpc,         \* where the classifier goroutine stands
    evt,          \* the typed event the classifier is publishing
    events,       \* the typed events the consumer of Events() has received
    eventsClosed, \* close(supCtrl.events) has run: no statement does it
    rawLog,       \* history: what was received from Unsolicited()
    disc,         \* what a direct call of NewOnDisconnectedEvent returned
    readLog       \* history: the datagrams receiveLoop has read and kept

conn == <<inmsgs, outmsgs, connClosed>>
mock == <<unsolConn, nsent, nunsol, networks, expect, mockExited>>
queues == <<solicited, unsolicited, solClosed, unsolClosed>>
reader == <<rpc, buf, n, rerr, cur, panicking, readLog>>
caller == <<cpc, call, ncalls, ret, hist>>
classifier == <<clpc, evt, events, eventsClosed, rawLog, disc>>
vars == <<conn, mock, queues, ctxDone, reader, crashed, caller, classifier>>

NoDatagram == [id |-> 0, re |-> 0]

\* a nil *network, and a nil *commandPair
NilNetwork == [id |-> 0 - 1, ssid |-> <<>>, psk |-> <<>>, flags |-> <<>>]
NoExpect == [set |-> FALSE, cmd |-> <<>>, rsp |-> <<>>]

\* call: op and cmd are the call; afterExit is history (receiveLoop had
\* returned when the call was made)
NoCall == [op |-> "none", cmd |-> <<>>, afterExit |-> FALSE]

\* ret: rsp and err are what the call returned.  The rest is history: the
\* call and its number, what its Command returned (inner), the case by which
\* Command returned (via), id and re of the datagram a reply came in, and
\* whether the reply queue was closed and empty when Command returned, and
\* whether the reader had exited when the call was made.  nets is the list
\* ListNetworks returned.
NoRet ==
    [op |-> "none", call |-> 0, rsp |-> <<>>, err |-> NoErr,
     inner |-> [rsp |-> <<>>, err |-> NoErr], via |-> "none",
     id |-> 0, re |-> 0, closedSeen |-> FALSE, afterExit |-> FALSE,
     nets |-> <<>>]
NoEvent == [type |-> "none", raw |-> <<>>, reason |-> <<>>, id |-> 0]

\* NewTestConn, NewWPAProcessMock, NewWPACtrl, NewWPASupplicantCtrl have run
Init ==
    /\ inmsgs = <<>> /\ outmsgs = <<>> /\ connClosed = FALSE
    /\ unsolConn = FALSE /\ nsent = 0 /\ nunsol = 0
    /\ networks = <<>> /\ expect = NoExpect /\ mockExited = FALSE
    /\ solicited = <<>> /\ unsolicited = <<>>
    /\ solClosed = FALSE /\ unsolClosed = FALSE
    /\ ctxDone = FALSE
    /\ rpc = "read" /\ buf = <<>> /\ n = 0 /\ rerr = FALSE
    /\ cur = NoDatagram /\ panicking = FALSE /\ readLog = <<>>
    /\ crashed = FALSE
    /\ cpc = "idle" /\ call = NoCall /\ ncalls = 0 /\ ret = NoRet
    /\ hist = <<>>
    /\ clpc = "recv" /\ evt = NoEvent /\ events = <<>> /\ rawLog = <<>>
    /\ eventsClosed = FALSE
    /\ disc = NoEvent

(***************************************************************************)
(* The daemon: WPAProcessMock.                                             *)
(***************************************************************************)
\* getNetwork(id): [panic, at]; at is the place of the network in networks
\* (1-based), 0 for a nil result; w.networks[id] with id = len(w.networks)
\* panics, and a removed network is a nil element
getNetwork(id) ==
    IF id < 0 \/ id > Len(networks) THEN [panic |-> FALSE, at |-> 0]
    ELSE IF id + 1 > Len(networks) THEN [panic |-> TRUE, at |-> 0]
    ELSE IF networks[id + 1] = NilNetwork THEN [panic |-> FALSE, at |-> 0]
    ELSE [panic |-> FALSE, at |-> id + 1]

\* getNetworkStr(idstr)
getNetworkStr(idstr) ==
    IF ~Atoi(idstr).ok THEN [panic |-> FALSE, at |-> 0]
    ELSE getNetwork(Atoi(idstr).v)

\* fmt.Sprintf("%d\t%s\t\t[%s]", net.id, net.ssid, net.flags)
NetworkLine(net) ==
    Itoa(net.id) \o <<"\t">> \o net.ssid \o <<"\t", "\t", "[">> \o net.flags
        \o <<"]">>

\* processMockCommand: [rsp, networks, panic], the reply to cmd and what
\* becomes of w.networks, or a panic (a nil *network dereferenced, an index
\* out of range).  DETACH has no case of its own and falls to the last
\* line; ENABLE_NETWORK, which the inputs below do not hold, is left out.
processMockCommand(cmd) ==
    LET fields == Split(cmd, <<" ">>)
        reply(rsp) == [rsp |-> rsp, networks |-> networks, panic |-> FALSE]
        panic == [rsp |-> <<>>, networks |-> networks, panic |-> TRUE]
        net == getNetworkStr(fields[2])
    IN  CASE fields[1] = sPING -> reply(sPONG)
          [] fields[1] = sATTACH -> reply(sOK)
          [] fields[1] = sLIST_NETWORKS ->
                IF \E i \in 1..Len(networks) : networks[i] = NilNetwork
                THEN panic
                ELSE reply(Join(<<sListHeader>>
                                  \o [i \in 1..Len(networks) |->
                                        NetworkLine(networks[i])],
                                <<"\n">>))
          [] fields[1] = sADD_NETWORK ->
                [rsp |-> Itoa(Len(networks)),
                 networks |-> Append(networks,
                                     [NilNetwork EXCEPT !.id = Len(networks)]),
                 panic |-> FALSE]
          [] fields[1] = sREMOVE_NETWORK ->
                IF Len(fields) < 2 THEN reply(sFAIL)
                ELSE IF net.panic THEN panic
                ELSE IF net.at = 0 THEN reply(sFAIL)
                ELSE [rsp |-> sOK,
                      networks |->
                          IF networks[net.at].id = Len(networks) - 1
                          THEN SubSeq(networks, 1, Len(networks) - 1)
                          ELSE [networks EXCEPT
                                  ![networks[net.at].id + 1] = NilNetwork],
                      panic |-> FALSE]
          [] fields[1] = sSET_NETWORK ->
                IF Len(fields) < 4 THEN reply(sFAIL)
                ELSE IF net.panic THEN panic
                ELSE IF net.at = 0 THEN reply(sFAIL)
                ELSE IF fields[3] = sSsid
                THEN [rsp |-> sOK,
                      networks |-> [networks EXCEPT
                                      ![net.at].ssid = Trim(fields[4], "\"")],
                      panic |-> FALSE]
                ELSE IF fields[3] = sPsk
                THEN [rsp |-> sOK,
                      networks |-> [networks EXCEPT
                                      ![net.at].psk = Trim(fields[4], "\"")],
                      panic |-> FALSE]
                ELSE reply(sFAIL)
          [] OTHER -> reply(sUNKNOWN_COMMAND \o fields[1])

\* one turn of readLoop: read a command, then send the expected reply if
\* one was set (and return if the command is not the expected one), or
\* process the command and write the reply; a panic in processMockCommand
\* ends the process, the daemon being a goroutine of it
readLoop ==
    /\ ~crashed /\ ~connClosed /\ ~mockExited
    /\ outmsgs # <<>> /\ Len(inmsgs) < ConnCap
    /\ LET cmd == Head(outmsgs)
           done == processMockCommand(cmd.b)
           send(rsp) ==
               /\ nsent' = nsent + 1
               /\ inmsgs' = Append(inmsgs, [b |-> rsp, id |-> nsent + 1,
                                            re |-> cmd.call])
       IN  /\ outmsgs' = Tail(outmsgs)
           /\ IF expect.set
              THEN /\ IF cmd.b # expect.cmd
                      THEN /\ mockExited' = TRUE
                           /\ UNCHANGED <<inmsgs, nsent, expect>>
                      ELSE /\ send(expect.rsp)
                           /\ expect' = NoExpect
                           /\ UNCHANGED mockExited
                   /\ UNCHANGED <<unsolConn, networks, crashed>>
              ELSE IF done.panic
              THEN /\ crashed' = TRUE
                   /\ UNCHANGED <<inmsgs, unsolConn, nsent, networks, expect,
                                  mockExited>>
              ELSE /\ send(done.rsp)
                   /\ unsolConn' =
                        (unsolConn \/ Split(cmd.b, <<" ">>)[1] = sATTACH)
                   /\ networks' = done.networks
                   /\ UNCHANGED <<expect, mockExited, crashed>>
    /\ UNCHANGED <<connClosed, nunsol, queues, ctxDone, reader, caller,
                   classifier>>

\* Expect(cmd, rsp): the test sets the reply to the next command
Expect(cmd, rsp) ==
    /\ ~crashed /\ ~expect.set
    /\ expect' = [set |-> TRUE, cmd |-> cmd, rsp |-> rsp]
    /\ UNCHANGED <<conn, unsolConn, nsent, nunsol, networks, mockExited,
                   queues, ctxDone, reader, crashed, caller, classifier>>

\* SendUnsol(msg): the daemon writes msg to the attached connection
SendUnsol(msg) ==
    /\ ~crashed /\ ~connClosed
    /\ unsolConn /\ Len(inmsgs) < ConnCap
    /\ nunsol' = nunsol + 1
    /\ nsent' = nsent + 1
    /\ inmsgs' = Append(inmsgs, [b |-> msg, id |-> nsent + 1, re |-> 0])
    /\ UNCHANGED <<outmsgs, connClosed, unsolConn, networks, expect,
                   mockExited, queues, ctxDone, reader, crashed, caller,
                   classifier>>

\* TestConn.Close on the daemon's side: the peer closes the connection
PeerClose ==
    /\ ~crashed /\ ~connClosed
    /\ connClosed' = TRUE
    /\ UNCHANGED <<inmsgs, outmsgs, mock, queues, ctxDone, reader, crashed,
                   caller, classifier>>

(***************************************************************************)
(* The reader: WPACtrl.receiveLoop.                                        *)
(***************************************************************************)
\* copy(b, msg) into a buffer of BufLen bytes
Copy(b, msg) ==
    LET k == Min(BufLen, Len(msg))
    IN  SubSeq(msg, 1, k) \o SubSeq(b, k + 1, Len(b))

\* buf[i], 0-based
BufByte(i) == IF i < Len(buf) THEN buf[i + 1] ELSE NUL

\* string(buf[lo:hi]), for lo <= hi
BufString(lo, hi) == [i \in 1..(hi - lo) |-> BufByte(lo + i - 1)]

\* n, err := wc.c.Read(buf), on a TestConn
Read ==
    /\ rpc = "read" /\ ~crashed
    /\ IF inmsgs # <<>>
       THEN /\ buf' = Copy(buf, Head(inmsgs).b)
            /\ n' = Min(BufLen, Len(Head(inmsgs).b))
            /\ rerr' = FALSE
            /\ cur' = [id |-> Head(inmsgs).id, re |-> Head(inmsgs).re]
            /\ inmsgs' = Tail(inmsgs)
       ELSE /\ connClosed
            /\ n' = 0 /\ rerr' = TRUE
            /\ UNCHANGED <<buf, cur, inmsgs>>
    /\ rpc' = "route"
    /\ UNCHANGED <<outmsgs, connClosed, mock, queues, ctxDone, panicking,
                   readLog, crashed, caller, classifier>>

\* the value receiveLoop sends on wc.unsolicited
UnsolicitedMsg == [s |-> TrimSpace(BufString(3, n)), id |-> cur.id]

\* the value receiveLoop offers to wc.solicited
SolicitedMsg == [s |-> TrimSpace(BufString(0, n)), id |-> cur.id, re |-> cur.re]

\* buf[0] == '<' and the sanity check passes
IsUnsolicited == BufByte(0) = "<" /\ ~(BufLen < 3 \/ BufByte(2) # ">")

\* a faulty select, which replaces the queued reply by the new datagram: the
\* queue of C18 must not hold of it
TrySendReplacing(q, msg) ==
    IF Len(q) < SolicitedCap THEN Append(q, msg) ELSE <<msg>>

\* select { case wc.solicited <- ...: default: }: the datagram is queued if
\* there is room, and dropped otherwise
TrySend(q, msg) ==
    IF Len(q) < SolicitedCap THEN Append(q, msg) ELSE q

\* the body of the loop after Read: the checks and the routing
Route ==
    /\ rpc = "route" /\ ~crashed
    /\ IF ctxDone \/ rerr
       THEN /\ rpc' = "closeUnsolicited"
            /\ UNCHANGED <<solicited, panicking, readLog>>
       ELSE /\ readLog' = Append(readLog, [b |-> BufString(0, n), id |-> cur.id])
            /\ IF BufByte(0) = "<"
               THEN /\ UNCHANGED solicited
                    /\ IF ~IsUnsolicited
                       THEN rpc' = "read" /\ UNCHANGED panicking
                       ELSE IF n < 3
                            \* buf[3:n] panics: slice bounds out of range
                            THEN rpc' = "closeUnsolicited" /\ panicking' = TRUE
                            ELSE rpc' = "send" /\ UNCHANGED panicking
               ELSE /\ rpc' = "read" /\ UNCHANGED panicking
                    /\ solicited' = TrySend(solicited, SolicitedMsg)
    \* n, err and the history of the datagram are dead once it is routed
    /\ n' = IF rpc' = "send" THEN n ELSE 0
    /\ cur' = IF rpc' = "send" THEN cur ELSE NoDatagram
    /\ rerr' = FALSE
    /\ UNCHANGED <<conn, mock, unsolicited, solClosed, unsolClosed, ctxDone,
                   buf, crashed, caller, classifier>>

\* a faulty Send, which puts the event at the head of the queue: the order
\* of C3 must not hold of it
SendAtHead ==
    /\ rpc = "send" /\ ~crashed
    /\ Len(unsolicited) < UnsolicitedCap
    /\ unsolicited' = <<UnsolicitedMsg>> \o unsolicited
    /\ rpc' = "read"
    /\ n' = 0 /\ cur' = NoDatagram
    /\ UNCHANGED <<conn, mock, solicited, solClosed, unsolClosed, ctxDone,
                   buf, rerr, panicking, readLog, crashed, caller,
                   classifier>>

\* wc.unsolicited <- ..., which blocks while the queue is full
Send ==
    /\ rpc = "send" /\ ~crashed
    /\ Len(unsolicited) < UnsolicitedCap
    /\ unsolicited' = Append(unsolicited, UnsolicitedMsg)
    /\ rpc' = "read"
    /\ n' = 0 /\ cur' = NoDatagram
    /\ UNCHANGED <<conn, mock, solicited, solClosed, unsolClosed, ctxDone,
                   buf, rerr, panicking, readLog, crashed, caller,
                   classifier>>

\* defer close(wc.unsolicited)
CloseUnsolicited ==
    /\ rpc = "closeUnsolicited" /\ ~crashed
    /\ unsolClosed' = TRUE
    /\ rpc' = "closeSolicited"
    /\ UNCHANGED <<conn, mock, solicited, unsolicited, solClosed, ctxDone,
                   buf, n, rerr, cur, panicking, readLog, crashed, caller,
                   classifier>>

\* defer close(wc.solicited); after it a panicking goroutine ends the process
CloseSolicited ==
    /\ rpc = "closeSolicited" /\ ~crashed
    /\ solClosed' = TRUE
    /\ rpc' = IF panicking THEN "fatal" ELSE "exited"
    /\ UNCHANGED <<conn, mock, solicited, unsolicited, unsolClosed, ctxDone,
                   buf, n, rerr, cur, panicking, readLog, crashed, caller,
                   classifier>>

\* the unrecovered panic ends the process, and every goroutine with it
Crash ==
    /\ rpc = "fatal" /\ ~crashed
    /\ crashed' = TRUE
    /\ UNCHANGED <<conn, mock, queues, ctxDone, reader, caller, classifier>>

receiveLoop == Read \/ Route \/ Send \/ CloseUnsolicited \/ CloseSolicited

(***************************************************************************)
(* The caller thread: Command, OkCommand, FailCommand, Close.              *)
(***************************************************************************)
\* a faulty OkCommand, which takes every reply for success: C5 must not
\* hold of it
OkCommandAnyReply(rsp, err) ==
    IF err # NoErr THEN err ELSE NoErr

\* OkCommand, given what Command returned: the error it returns
OkCommand(rsp, err) ==
    IF err # NoErr THEN err
    ELSE IF rsp # sOK THEN ErrorsNew(rsp)
    ELSE NoErr

\* a faulty FailCommand, which fails on every reply but "OK": C6 must not
\* hold of it
FailCommandUnlessOk(rsp, err) ==
    IF err # NoErr THEN [rsp |-> <<>>, err |-> err]
    ELSE IF rsp # sOK THEN [rsp |-> <<>>, err |-> ErrorsNew(rsp)]
    ELSE [rsp |-> rsp, err |-> err]

\* FailCommand, given what Command returned: the reply and error it returns
FailCommand(rsp, err) ==
    IF err # NoErr THEN [rsp |-> <<>>, err |-> err]
    ELSE IF rsp = sFAIL THEN [rsp |-> <<>>, err |-> ErrorsNew(rsp)]
    ELSE [rsp |-> rsp, err |-> err]

\* fmt.Sprintf("SET_NETWORK %s ssid \"%s\"", network, ssid)
SetSSIDCmd(network, ssid) ==
    sSET_NETWORK \o <<" ">> \o network \o <<" ">> \o sSsid \o <<" ", "\"">>
        \o ssid \o <<"\"">>

\* fmt.Sprintf("SET_NETWORK %s psk \"%s\"", network, psk)
SetPSKCmd(network, psk) ==
    sSET_NETWORK \o <<" ">> \o network \o <<" ">> \o sPsk \o <<" ", "\"">>
        \o psk \o <<"\"">>

\* fmt.Sprintf("REMOVE_NETWORK %s", id)
RemoveNetworkCmd(id) == sREMOVE_NETWORK \o <<" ">> \o id

\* the calls of WPASupplicantCtrl
NetOps == {"AddNetwork", "SetSSID", "SetPSK", "RemoveNetwork", "ListNetworks"}

\* what the call op returns when its Command returned (rsp, err); for
\* ListNetworks, what its FailCommand returned
Result(op, rsp, err) ==
    CASE op = "Command" -> [rsp |-> rsp, err |-> err]
      [] op = "OkCommand" -> [rsp |-> <<>>, err |-> OkCommand(rsp, err)]
      [] op = "FailCommand" -> FailCommand(rsp, err)
      [] op \in {"AddNetwork", "ListNetworks"} -> FailCommand(rsp, err)
      [] op \in {"SetSSID", "SetPSK", "RemoveNetwork"} ->
            [rsp |-> <<>>, err |-> OkCommand(rsp, err)]

\* Command has returned (rsp, err): the call in progress returns to its
\* caller, or, in Close, goes on after Detach, or, in ListNetworks with a
\* reply, goes on to split the reply
Return(rsp, err, dgram, via) ==
    IF call'.op = "Close"
    THEN cpc' = "cancel" /\ UNCHANGED <<ret, hist>>
    ELSE LET res == Result(call'.op, rsp, err)
             split == call'.op = "ListNetworks" /\ res.err = NoErr
         IN  /\ cpc' = IF split THEN "split" ELSE "idle"
             /\ ret' = [op |-> call'.op, call |-> ncalls',
                        rsp |-> res.rsp, err |-> res.err,
                        inner |-> [rsp |-> rsp, err |-> err], via |-> via,
                        id |-> dgram.id, re |-> dgram.re,
                        closedSeen |-> solClosed /\ solicited = <<>>,
                        afterExit |-> call'.afterExit, nets |-> <<>>]
             /\ hist' = IF call'.op \in NetOps /\ ~split
                        THEN Append(hist, [op |-> call'.op, cmd |-> call'.cmd,
                                           rsp |-> res.rsp, err |-> res.err,
                                           nets |-> <<>>, via |-> via])
                        ELSE hist

\* a faulty call, which goes on to wait for a reply after a failed write:
\* C9 must not hold of it
CallIgnoringWriteError(op, cmd) ==
    /\ cpc = "idle" /\ ~crashed
    /\ connClosed \/ Len(outmsgs) < ConnCap
    /\ ncalls' = ncalls + 1
    /\ call' = [op |-> op, cmd |-> cmd, afterExit |-> rpc = "exited"]
    /\ outmsgs' = IF connClosed THEN outmsgs
                  ELSE Append(outmsgs, [b |-> cmd, call |-> ncalls + 1])
    /\ cpc' = "select"
    /\ ret' = NoRet
    /\ UNCHANGED hist
    /\ UNCHANGED <<inmsgs, connClosed, mock, queues, ctxDone, reader, crashed,
                   classifier>>

\* a call of Command, OkCommand, FailCommand or Close (whose first step is
\* Detach, OkCommand("DETACH")): the write of Command; a failed write returns
Call(op, cmd) ==
    /\ cpc = "idle" /\ ~crashed
    /\ connClosed \/ Len(outmsgs) < ConnCap
    /\ ncalls' = ncalls + 1
    /\ call' = [op |-> op, cmd |-> cmd, afterExit |-> rpc = "exited"]
    /\ IF connClosed
       THEN /\ Return(<<>>, CommandError(ErrConnClosed), NoDatagram, "write")
            /\ UNCHANGED outmsgs
       ELSE /\ outmsgs' = Append(outmsgs, [b |-> cmd, call |-> ncalls + 1])
            /\ cpc' = "select"
            /\ ret' = NoRet
            /\ UNCHANGED hist
    /\ UNCHANGED <<inmsgs, connClosed, mock, queues, ctxDone, reader, crashed,
                   classifier>>

\* case msg, ok := <-wc.solicited, with a reply in the queue
CommandReply ==
    /\ cpc = "select" /\ ~crashed
    /\ solicited # <<>>
    /\ solicited' = Tail(solicited)
    /\ UNCHANGED <<call, ncalls>>
    /\ Return(Head(solicited).s, NoErr, Head(solicited), "reply")
    /\ UNCHANGED <<conn, mock, unsolicited, solClosed, unsolClosed, ctxDone,
                   reader, crashed, classifier>>

\* a faulty CommandClosed, which takes no notice of !ok and returns the
\* empty message as a reply: C7 must not hold of it
CommandClosedAsReply ==
    /\ cpc = "select" /\ ~crashed
    /\ solicited = <<>> /\ solClosed
    /\ UNCHANGED <<call, ncalls>>
    /\ Return(<<>>, NoErr, NoDatagram, "closed")
    /\ UNCHANGED <<conn, mock, queues, ctxDone, reader, crashed, classifier>>

\* case msg, ok := <-wc.solicited, with the queue closed and empty: !ok
CommandClosed ==
    /\ cpc = "select" /\ ~crashed
    /\ solicited = <<>> /\ solClosed
    /\ UNCHANGED <<call, ncalls>>
    /\ Return(<<>>, ErrorsNew(sFailed), NoDatagram, "closed")
    /\ UNCHANGED <<conn, mock, queues, ctxDone, reader, crashed, classifier>>

\* case <-time.After(wc.cmdTimeout)
CommandTimeout ==
    /\ cpc = "select" /\ ~crashed
    /\ UNCHANGED <<call, ncalls>>
    /\ Return(<<>>, ErrTimeout, NoDatagram, "timeout")
    /\ UNCHANGED <<conn, mock, queues, ctxDone, reader, crashed, classifier>>

\* ListNetworks, after FailCommand: the lines of the reply after the first
\* are split at the tabs, and f[1] of a line with one field panics, which
\* ends the process
ListNetworks ==
    /\ cpc = "split" /\ ~crashed
    /\ LET lines == Tail(Split(ret.rsp, <<"\n">>))
           f(i) == Split(lines[i], <<"\t">>)
           result == [i \in 1..Len(lines) |-> [ID |-> f(i)[1], SSID |-> f(i)[2]]]
       IN  IF \E i \in 1..Len(lines) : Len(f(i)) < 2
           THEN /\ crashed' = TRUE
                /\ UNCHANGED <<cpc, ret, hist>>
           ELSE /\ cpc' = "idle"
                /\ ret' = [ret EXCEPT !.rsp = <<>>, !.nets = result]
                /\ hist' = Append(hist, [op |-> "ListNetworks", cmd |-> call.cmd,
                                         rsp |-> <<>>, err |-> NoErr,
                                         nets |-> result, via |-> ret.via])
                /\ UNCHANGED crashed
    /\ UNCHANGED <<conn, mock, queues, ctxDone, reader, call, ncalls,
                   classifier>>

\* Close, after Detach: wc.cancel()
CloseCancel ==
    /\ cpc = "cancel" /\ ~crashed
    /\ ctxDone' = TRUE
    /\ cpc' = "connClose"
    /\ UNCHANGED <<conn, mock, queues, reader, crashed, call, ncalls, ret, hist,
                   classifier>>

\* Close, last: wc.c.Close()
CloseConn ==
    /\ cpc = "connClose" /\ ~crashed
    /\ connClosed' = TRUE
    /\ cpc' = "idle"
    /\ UNCHANGED <<inmsgs, outmsgs, mock, queues, ctxDone, reader, crashed,
                   call, ncalls, ret, hist, classifier>>

(***************************************************************************)
(* The classifier: the goroutine of NewWPASupplicantCtrl.                  *)
(***************************************************************************)
\* the maximal run of digits of msg that starts at position i
RECURSIVE DigitRun(_, _)
DigitRun(msg, i) ==
    IF i <= Len(msg) /\ msg[i] \in Digits
    THEN <<msg[i]>> \o DigitRun(msg, i + 1)
    ELSE <<>>

\* a faulty parseReason, which keeps the first digit of the code only: C11
\* must not hold of it
parseReasonOneDigit(msg) ==
    LET i == Index(msg, sReasonEq)
    IN  IF i = 0 \/ DigitRun(msg, i + Len(sReasonEq)) = <<>>
        THEN <<"0">>
        ELSE <<msg[i + Len(sReasonEq)]>>

\* parseReason: the submatch of the leftmost match of
\* "CTRL-EVENT-DISCONNECTED.*?reason=([0-9]+)", "0" without a match
parseReason(msg) ==
    LET from(i) == i + Len(pDISCONNECTED)
        reasons(i) ==
            {j \in from(i)..Len(msg) :
                /\ j + Len(sReasonEq) - 1 <= Len(msg)
                /\ SubSeq(msg, j, j + Len(sReasonEq) - 1) = sReasonEq
                /\ DigitRun(msg, j + Len(sReasonEq)) # <<>>
                /\ \A k \in from(i)..(j - 1) : msg[k] # "\n"}
        starts ==
            {i \in 1..Len(msg) :
                /\ from(i) - 1 <= Len(msg)
                /\ SubSeq(msg, i, from(i) - 1) = pDISCONNECTED
                /\ reasons(i) # {}}
        first(S) == CHOOSE i \in S : \A j \in S : i <= j
    IN  IF starts = {}
        THEN <<"0">>
        ELSE DigitRun(msg, first(reasons(first(starts))) + Len(sReasonEq))

\* commonReasonCodes[reason], the empty string for a code not in the map
commonReasonCodes(reason) ==
    CASE reason = <<"2">> ->
          <<"i", "n", "v", "a", "l", "i", "d", "-", "a", "u", "t", "h">>
      [] reason = <<"3">> ->
          <<"s", "t", "a", "-", "l", "e", "f", "t", "-", "e", "s", "s">>
      [] reason = <<"4">> ->
          <<"i", "n", "a", "c", "t", "i", "v", "i", "t", "y">>
      [] reason = <<"5">> ->
          <<"a", "p", "-", "o", "v", "e", "r", "l", "o", "a", "d", "e",
            "d">>
      [] reason = <<"6">> ->
          <<"c", "l", "a", "s", "s", "-", "2", "-", "n", "o", "n", "a", "u",
            "t", "h">>
      [] reason = <<"7">> ->
          <<"c", "l", "a", "s", "s", "-", "3", "-", "n", "o", "n", "a", "s",
            "s", "o", "c">>
      [] reason = <<"8">> ->
          <<"s", "t", "a", "-", "l", "e", "f", "t", "-", "b", "s", "s">>
      [] reason = <<"9">> ->
          <<"n", "o", "t", "-", "a", "u", "t", "h", "e", "n", "t", "i", "c",
            "a", "t", "e", "d", "-", "r", "e", "s", "p", "o", "n", "d", "e",
            "r">>
      [] reason = <<"1", "0">> ->
          <<"b", "a", "d", "-", "p", "o", "w", "e", "r", "-", "c", "a",
            "p">>
      [] reason = <<"1", "1">> ->
          <<"b", "a", "d", "-", "c", "h", "a", "n", "n", "e", "l", "s">>
      [] reason = <<"1", "4">> ->
          <<"m", "i", "c", "-", "f", "a", "i", "l", "u", "r", "e">>
      [] reason = <<"1", "5">> ->
          <<"f", "o", "u", "r", "-", "w", "a", "y", "-", "h", "a", "n", "d",
            "s", "h", "a", "k", "e", "-", "t", "i", "m", "e", "o", "u",
            "t">>
      [] reason = <<"1", "6">> ->
          <<"g", "r", "o", "u", "p", "-", "k", "e", "y", "-", "h", "a", "n",
            "d", "s", "h", "a", "k", "e", "-", "t", "i", "m", "e", "o", "u",
            "t">>
      [] reason = <<"1", "7">> ->
          <<"f", "o", "u", "r", "-", "w", "a", "y", "-", "h", "a", "n", "d",
            "s", "h", "a", "k", "e", "-", "m", "i", "s", "m", "a", "t", "c",
            "h">>
      [] reason = <<"1", "8">> ->
          <<"i", "n", "v", "a", "l", "i", "d", "-", "g", "r", "o", "u", "p",
            "-", "c", "i", "p", "h", "e", "r">>
      [] reason = <<"1", "9">> ->
          <<"i", "n", "v", "a", "l", "i", "d", "-", "p", "a", "i", "r", "w",
            "i", "s", "e", "-", "c", "i", "p", "h", "e", "r">>
      [] reason = <<"2", "0">> ->
          <<"i", "n", "v", "a", "l", "i", "d", "-", "a", "k", "m", "p">>
      [] reason = <<"2", "1">> ->
          <<"u", "n", "s", "u", "p", "p", "o", "r", "t", "e", "d", "-", "r",
            "s", "n">>
      [] reason = <<"2", "2">> ->
          <<"i", "n", "v", "a", "l", "i", "d", "-", "r", "s", "n">>
      [] reason = <<"2", "3">> ->
          <<"8", "0", "2", "1", "x", "-", "a", "u", "t", "h", "-", "f", "a",
            "i", "l", "e", "d">>
      [] reason = <<"2", "4">> ->
          <<"c", "i", "p", "h", "e", "r", "-", "r", "e", "j", "c", "t", "e",
            "d", "-", "d", "u", "e", "-", "t", "o", "-", "p", "o", "l", "i",
            "c", "y">>
      [] reason = <<"3", "2">> ->
          <<"q", "o", "s">>
      [] reason = <<"3", "3">> ->
          <<"q", "o", "s", "-", "b", "a", "n", "d", "w", "i", "d", "t",
            "h">>
      [] reason = <<"3", "4">> ->
          <<"n", "o", "i", "s", "y", "-", "c", "h", "a", "n", "n", "e", "l",
            "-", "c", "a", "n", "t", "-", "a", "c", "k">>
      [] reason = <<"3", "5">> ->
          <<"o", "u", "t", "s", "i", "d", "e", "-", "t", "x", "o", "p", "-",
            "l", "i", "m", "i", "t", "s">>
      [] reason = <<"3", "6">> ->
          <<"p", "e", "e", "r", "-", "l", "e", "a", "v", "i", "n", "g", "-",
            "b", "s", "s">>
      [] reason = <<"3", "7">> ->
          <<"p", "e", "e", "r", "-", "r", "e", "j", "e", "c", "t", "s", "-",
            "m", "e", "c", "h", "a", "n", "i", "s", "m">>
      [] reason = <<"3", "8">> ->
          <<"p", "e", "e", "r", "-", "m", "e", "c", "h", "a", "n", "i", "s",
            "m", "-", "n", "e", "e", "d", "s", "-", "s", "e", "t", "u",
            "p">>
      [] reason = <<"3", "9">> ->
          <<"p", "e", "e", "r", "-", "t", "i", "m", "e", "o", "u", "t">>
      [] reason = <<"4", "5">> ->
          <<"p", "e", "e", "r", "-", "c", "i", "p", "h", "e", "r", "-", "s",
            "u", "i", "t", "e", "-", "n", "o", "t", "-", "s", "u", "p", "p",
            "o", "r", "t", "e", "d">>
      [] OTHER -> <<>>
\* NewOnDisconnectedEvent
NewOnDisconnectedEvent(msg) ==
    LET reason == parseReason(msg)
        sreason == reason \o <<":">> \o commonReasonCodes(reason)
    IN  [type |-> "OnDisconnectedEvent", raw |-> msg, reason |-> sreason]

\* a direct call of NewOnDisconnectedEvent(msg), as the tests make it
CallNewOnDisconnectedEvent(msg) ==
    /\ ~crashed
    /\ disc' = NewOnDisconnectedEvent(msg) @@ [id |-> 0]
    /\ UNCHANGED <<conn, mock, queues, ctxDone, reader, crashed, caller,
                   clpc, evt, events, eventsClosed, rawLog>>

\* a faulty TypedEvent, which has no case for the scan results: C10 must
\* not hold of it
TypedEventNoScanResults(msg) ==
    IF HasPrefix(msg, pCONNECTED)
    THEN [type |-> "OnConnectedEvent", raw |-> msg, reason |-> <<>>]
    ELSE IF HasPrefix(msg, pDISCONNECTED)
    THEN NewOnDisconnectedEvent(msg)
    ELSE IF HasPrefix(msg, pNETWORK_NOT_FOUND)
    THEN [type |-> "OnNotFoundEvent", raw |-> msg, reason |-> <<>>]
    ELSE IF HasPrefix(msg, pSCAN_FAILED)
    THEN [type |-> "OnScanFailedEvent", raw |-> msg, reason |-> <<>>]
    ELSE IF HasPrefix(msg, pSCAN_STARTED)
    THEN [type |-> "OnScanStartedEvent", raw |-> msg, reason |-> <<>>]
    ELSE IF HasPrefix(msg, pBSS_ADDED)
    THEN [type |-> "OnScanEvent", raw |-> msg, reason |-> <<>>]
    ELSE [type |-> "OnEvent", raw |-> msg, reason |-> <<>>]

\* the typed event the goroutine makes of msg
TypedEvent(msg) ==
    IF HasPrefix(msg, pCONNECTED)
    THEN [type |-> "OnConnectedEvent", raw |-> msg, reason |-> <<>>]
    ELSE IF HasPrefix(msg, pDISCONNECTED)
    THEN NewOnDisconnectedEvent(msg)
    ELSE IF HasPrefix(msg, pNETWORK_NOT_FOUND)
    THEN [type |-> "OnNotFoundEvent", raw |-> msg, reason |-> <<>>]
    ELSE IF HasPrefix(msg, pSCAN_FAILED)
    THEN [type |-> "OnScanFailedEvent", raw |-> msg, reason |-> <<>>]
    ELSE IF HasPrefix(msg, pSCAN_STARTED)
    THEN [type |-> "OnScanStartedEvent", raw |-> msg, reason |-> <<>>]
    ELSE IF HasPrefix(msg, pSCAN_RESULTS)
    THEN [type |-> "OnScanResultsEvent", raw |-> msg, reason |-> <<>>]
    ELSE IF HasPrefix(msg, pBSS_ADDED)
    THEN [type |-> "OnScanEvent", raw |-> msg, reason |-> <<>>]
    ELSE [type |-> "OnEvent", raw |-> msg, reason |-> <<>>]

\* for msg := range ctrl.Unsolicited(): the next message is taken
RangeUnsolicited ==
    /\ clpc = "recv" /\ ~crashed
    /\ unsolicited # <<>>
    /\ unsolicited' = Tail(unsolicited)
    /\ rawLog' = Append(rawLog, Head(unsolicited))
    /\ evt' = [type |-> TypedEvent(Head(unsolicited).s).type,
               raw |-> TypedEvent(Head(unsolicited).s).raw,
               reason |-> TypedEvent(Head(unsolicited).s).reason,
               id |-> Head(unsolicited).id]
    /\ clpc' = "publish"
    /\ UNCHANGED <<conn, mock, solicited, solClosed, unsolClosed, ctxDone,
                   reader, crashed, caller, events, eventsClosed, disc>>

\* a faulty end of the goroutine, which closes the typed event stream when
\* the raw stream has closed: C22 must not hold of it
RangeClosedClosingEvents ==
    /\ clpc = "recv" /\ ~crashed
    /\ unsolicited = <<>> /\ unsolClosed
    /\ clpc' = "done"
    /\ eventsClosed' = TRUE
    /\ UNCHANGED <<conn, mock, queues, ctxDone, reader, crashed, caller,
                   evt, events, rawLog, disc>>

\* for msg := range ctrl.Unsolicited(): the queue is closed and empty, and
\* the goroutine returns; supCtrl.events is left as it is
RangeClosed ==
    /\ clpc = "recv" /\ ~crashed
    /\ unsolicited = <<>> /\ unsolClosed
    /\ clpc' = "done"
    /\ UNCHANGED <<conn, mock, queues, ctxDone, reader, crashed, caller,
                   evt, events, eventsClosed, rawLog, disc>>

\* a faulty hand-off, which gives the consumer the new event before the ones
\* it already has: the order of C19 must not hold of it
PublishAtHead ==
    /\ clpc = "publish" /\ ~crashed
    /\ events' = <<evt>> \o events
    /\ evt' = NoEvent
    /\ clpc' = "recv"
    /\ UNCHANGED <<conn, mock, queues, ctxDone, reader, crashed, caller,
                   eventsClosed, rawLog, disc>>

\* supCtrl.events <- ...: the consumer of Events() receives the typed event
Publish ==
    /\ clpc = "publish" /\ ~crashed
    /\ events' = Append(events, evt)
    /\ evt' = NoEvent
    /\ clpc' = "recv"
    /\ UNCHANGED <<conn, mock, queues, ctxDone, reader, crashed, caller,
                   eventsClosed, rawLog, disc>>

(***************************************************************************)
(* The inputs.                                                             *)
(***************************************************************************)
dConnected ==
    <<"<", "2", ">", "C", "T", "R", "L", "-", "E", "V", "E", "N", "T", "-",
      "C", "O", "N", "N", "E", "C", "T", "E", "D", " ", "-", " ", "i", "d",
      "=", "0">>
dDisconnected ==
    <<"<", "2", ">", "C", "T", "R", "L", "-", "E", "V", "E", "N", "T", "-",
      "D", "I", "S", "C", "O", "N", "N", "E", "C", "T", "E", "D", " ", "b",
      "s", "s", "i", "d", "=", "0", "0", ":", "1", "a", " ", "r", "e", "a",
      "s", "o", "n", "=", "3">>
dNotFound ==
    <<"<", "3", ">", "C", "T", "R", "L", "-", "E", "V", "E", "N", "T", "-",
      "N", "E", "T", "W", "O", "R", "K", "-", "N", "O", "T", "-", "F", "O",
      "U", "N", "D">>
dScanFailed ==
    <<"<", "3", ">", "C", "T", "R", "L", "-", "E", "V", "E", "N", "T", "-",
      "S", "C", "A", "N", "-", "F", "A", "I", "L", "E", "D", " ", "r", "e",
      "t", "=", "-", "1">>
dScanStarted ==
    <<"<", "3", ">", " ", "C", "T", "R", "L", "-", "E", "V", "E", "N", "T",
      "-", "S", "C", "A", "N", "-", "S", "T", "A", "R", "T", "E", "D", " ",
      "\n">>
dScanResults ==
    <<"<", "3", ">", "C", "T", "R", "L", "-", "E", "V", "E", "N", "T", "-",
      "S", "C", "A", "N", "-", "R", "E", "S", "U", "L", "T", "S">>
dBssAdded ==
    <<"<", "3", ">", "C", "T", "R", "L", "-", "E", "V", "E", "N", "T", "-",
      "B", "S", "S", "-", "A", "D", "D", "E", "D", " ", "0", " ", "0", "0",
      ":", "1", "a">>
dSomething ==
    <<"<", "2", ">", "C", "T", "R", "L", "-", "E", "V", "E", "N", "T", "-",
      "S", "O", "M", "E", "T", "H", "I", "N", "G">>
dBadPriority ==
    <<"<", "x", ">", "P", "O", "N", "G">>
dNoBracket ==
    <<"<", "2", " ", "P", "O", "N", "G">>
dShort ==
    <<"<">>
dStray ==
    <<"O", "K", "\n">>
\* a datagram of no bytes
dEmpty == <<>>

\* parts of disconnect messages
mDisconnected ==
    <<"C", "T", "R", "L", "-", "E", "V", "E", "N", "T", "-", "D", "I", "S",
      "C", "O", "N", "N", "E", "C", "T", "E", "D", " ", "b", "s", "s", "i",
      "d", "=", "0", "0", ":", "1", "a", ":", "d", "d", ":", "1", "8", ":",
      "f", "2", ":", "4", "5">>
mReason ==
    <<" ", "r", "e", "a", "s", "o", "n", "=">>
mReason1235 ==
    <<" ", "r", "e", "a", "s", "o", "n", "=", "1", "2", "3", "5">>
mReasonAsdf4 ==
    <<" ", "r", "e", "a", "s", "o", "n", "=", "a", "s", "d", "f", "4">>
mReason02 ==
    <<" ", "r", "e", "a", "s", "o", "n", "=", "0", "2">>
mReasonNextLine ==
    <<"\n", "r", "e", "a", "s", "o", "n", "=", "2">>
mLocallyGenerated ==
    <<" ", "l", "o", "c", "a", "l", "l", "y", "_", "g", "e", "n", "e", "r",
      "a", "t", "e", "d", "=", "1">>
mReason7 ==
    <<" ", "r", "e", "a", "s", "o", "n", "=", "7">>

\* the disconnect messages NewOnDisconnectedEvent is called with: the event
\* and a bssid; then nothing, or reason= followed by a code of 0..MaxCode,
\* by 1235, by 02, by asdf4 or by nothing, or reason=2 on a line of its
\* own; then nothing, or more fields, or one more reason=
ReasonMsgs ==
    LET tokens == {<<>>, mReason, mReason1235, mReasonAsdf4, mReason02,
                   mReasonNextLine}
                  \cup {mReason \o Itoa(c) : c \in 0..MaxCode}
        tails == {<<>>, mLocallyGenerated, mReason7}
    IN  {mDisconnected \o t \o u : t \in tokens, u \in tails}

sFoossid ==
    <<"f", "o", "o", "s", "s", "i", "d">>
sMySsid ==
    <<"m", "y", " ", "s", "s", "i", "d">>
sFoopsk ==
    <<"f", "o", "o", "p", "s", "k">>

\* the calls of WPASupplicantCtrl the caller thread makes: networks "0" and
\* "1", an ssid without and one with a space
NetCalls ==
    {<<"AddNetwork", sADD_NETWORK>>, <<"ListNetworks", sLIST_NETWORKS>>,
     <<"SetPSK", SetPSKCmd(<<"0">>, sFoopsk)>>}
      \cup {<<"SetSSID", SetSSIDCmd(<<"0">>, ssid)>> :
               ssid \in {sFoossid, sMySsid}}
      \cup {<<"RemoveNetwork", RemoveNetworkCmd(id)>> :
               id \in {<<"0">>, <<"1">>}}

\* the replies to LIST_NETWORKS a test sets with Expect: a list of one
\* network, and a list of two with a line of one field between them
ListReplies ==
    {sListHeader \o <<"\n", "0", "\t">> \o sFoossid \o <<"\t", "\t", "[", "]">>,
     sListHeader \o <<"\n", "0", "\t">> \o sFoossid \o <<"\t", "\t", "[", "]">>
        \o <<"\n", "x", "\n", "1", "\t">> \o sFoossid
        \o <<"\t", "\t", "[", "]">>}

\* the calls the caller thread makes where the commands are what is looked
\* at: the daemon answers PING with PONG, ATTACH with OK and REMOVE_NETWORK
\* (with no id) with FAIL
Calls ==
    {<<"Command", sPING>>, <<"Command", sATTACH>>,
     <<"OkCommand", sATTACH>>, <<"OkCommand", sREMOVE_NETWORK>>,
     <<"FailCommand", sREMOVE_NETWORK>>, <<"FailCommand", sPING>>,
     <<"Close", sDETACH>>}

\* what the daemon sends on its own where the commands are what is looked at
CtrlMsgs == {dStray, dSomething}

\* what the daemon sends on its own where the events are what is looked at
EventMsgs ==
    {dConnected, dScanStarted, dBadPriority, dNoBracket, dShort, dEmpty,
     dStray}

\* what the daemon sends on its own where the typed events are what is
\* looked at: an event of every kind
ClassifyMsgs ==
    {dConnected, dDisconnected, dNotFound, dScanFailed, dScanStarted,
     dScanResults, dBssAdded, dSomething, dBadPriority}

(***************************************************************************)
(* The specifications.                                                     *)
(***************************************************************************)
\* the steps the program takes on its own, whatever it is given
Internal ==
    \/ CommandReply
    \/ CommandClosed
    \/ CommandTimeout
    \/ CloseCancel
    \/ CloseConn
    \/ readLoop
    \/ receiveLoop

\* the demultiplexer under commands: a WPACtrl whose event queue nobody
\* reads, and a daemon that sends on its own a stray reply or an event
Next ==
    \/ ncalls < MaxCalls /\ \E c \in Calls : Call(c[1], c[2])
    \/ nunsol < MaxUnsol /\ \E msg \in CtrlMsgs : SendUnsol(msg)
    \/ PeerClose
    \/ Internal

Spec == Init /\ [][Next]_vars

\* the demultiplexer and the classifier under events: Attach, then Close
NextEvents ==
    \/ ncalls = 0 /\ Call("OkCommand", sATTACH)
    \/ ncalls = 1 /\ Call("Close", sDETACH)
    \/ nunsol < MaxEvents /\ \E msg \in EventMsgs : SendUnsol(msg)
    \/ Internal
    \/ Crash
    \/ RangeUnsolicited
    \/ RangeClosed
    \/ Publish

SpecEvents == Init /\ [][NextEvents]_vars

\* the classifier under every kind of event: Attach, then Close, and a peer
\* that may close the connection
NextClassify ==
    \/ ncalls = 0 /\ Call("OkCommand", sATTACH)
    \/ ncalls = 1 /\ Call("Close", sDETACH)
    \/ nunsol < MaxClassify /\ \E msg \in ClassifyMsgs : SendUnsol(msg)
    \/ PeerClose
    \/ Internal
    \/ RangeUnsolicited
    \/ RangeClosed
    \/ Publish

SpecClassify == Init /\ [][NextClassify]_vars

\* WPASupplicantCtrl's network calls against the daemon, as in
\* TestAddAndConfigureNetwork: nothing closes the connection and the daemon
\* sends no events
NextNetworks ==
    \/ ncalls < MaxNetCalls /\ \E c \in NetCalls : Call(c[1], c[2])
    \/ CommandReply
    \/ CommandTimeout
    \/ ListNetworks
    \/ readLoop
    \/ Read
    \/ Route

SpecNetworks == Init /\ [][NextNetworks]_vars

\* ListNetworks against a daemon whose replies the test sets with Expect
\* between the calls (the test is one thread)
NextList ==
    \/ ncalls < MaxListCalls /\ Call("ListNetworks", sLIST_NETWORKS)
    \/ cpc = "idle" /\ \E rsp \in ListReplies : Expect(sLIST_NETWORKS, rsp)
    \/ CommandReply
    \/ CommandTimeout
    \/ ListNetworks
    \/ readLoop
    \/ Read
    \/ Route

SpecList == Init /\ [][NextList]_vars

\* a burst of events on a WPACtrl whose event queue nobody reads: Attach,
\* the burst, and then a Command or Close
NextBurst ==
    \/ ncalls = 0 /\ Call("OkCommand", sATTACH)
    \/ ncalls = 1 /\ nunsol = MaxBurst /\ Call("Command", sPING)
    \/ ncalls = 1 /\ nunsol = MaxBurst /\ Call("Close", sDETACH)
    \/ nunsol < MaxBurst /\ SendUnsol(dSomething)
    \/ CommandReply
    \/ CommandTimeout
    \/ CloseCancel
    \/ CloseConn
    \/ readLoop
    \/ receiveLoop

SpecBurst == Init /\ [][NextBurst]_vars

\* NewOnDisconnectedEvent called on its own, as TestDisconMsg and the tests
\* after it do
NextReason == \E msg \in ReasonMsgs : CallNewOnDisconnectedEvent(msg)

SpecReason == Init /\ [][NextReason]_vars

(***************************************************************************)
(* Fairness.  The Go scheduler runs every goroutine that can run, and a    *)
(* timer that was started fires: the reader, the steps by which a call     *)
(* returns, the steps of Close, the classifier's receive and the end of    *)
(* the process after a panic all happen if they stay possible.  Nothing is *)
(* assumed of the daemon, of the caller's next call, or of the consumer of *)
(* Events().                                                               *)
(***************************************************************************)
Fairness ==
    /\ WF_vars(receiveLoop)
    /\ WF_vars(Crash)
    /\ WF_vars(CommandReply \/ CommandClosed \/ CommandTimeout)
    /\ WF_vars(CloseCancel \/ CloseConn)
    /\ WF_vars(RangeUnsolicited \/ RangeClosed)

FairSpecEvents == SpecEvents /\ Fairness

\* the same of a WPACtrl used on its own: nothing is assumed of the consumer
\* of Unsolicited()
FairnessOfCtrl ==
    /\ WF_vars(receiveLoop)
    /\ WF_vars(CommandReply \/ CommandClosed \/ CommandTimeout)
    /\ WF_vars(CloseCancel \/ CloseConn)

FairSpecBurst == SpecBurst /\ FairnessOfCtrl

(***************************************************************************)
(* The claims.                                                             *)
(***************************************************************************)
\* a call of Command, OkCommand or FailCommand has returned
Returned == ret.op \in {"Command", "OkCommand", "FailCommand"}

\* C1: when Commands are issued one at a time, the reply a successful
\* Command returns is the daemon's reply to that same command, never the
\* reply to an earlier command or a datagram the daemon sent on its own.
\* (The caller thread issues its calls one after the other.)
C1_ReplyAnswersItsCommand ==
    (Returned /\ ret.via = "reply") => ret.re = ret.call

\* C2: every Command whose write returned eventually returns to its caller,
\* and one that returns while no reply is queued and the reply queue is open
\* returns ErrTimeout.
C2_CommandReturns ==
    /\ [][(cpc = "select" /\ cpc' = "idle" /\ solicited = <<>> /\ ~solClosed)
            => ret'.inner.err = ErrTimeout]_vars
    /\ (cpc = "select") ~> (cpc # "select")

\* C2, as far as the code goes: the Command returns unless the process has
\* ended on the reader's panic
C2_CommandReturnsOrCrash ==
    (cpc = "select") ~> (cpc # "select" \/ crashed)

\* the first three bytes of datagram d are '<', an ASCII digit, '>'
WellFormedEvent(d) ==
    Len(d) >= 3 /\ d[1] = "<" /\ d[2] \in Digits /\ d[3] = ">"

\* the payload of event datagram d: the marker stripped, the rest trimmed
Payload(d) == TrimSpace(SubSeq(d, 4, Len(d)))

\* everything that has been put on the Unsolicited stream, in stream order:
\* what was received from it, what is queued, and what the reader is sending
Stream ==
    rawLog \o unsolicited \o (IF rpc = "send" THEN <<UnsolicitedMsg>> ELSE <<>>)

\* the well-formed event datagrams the reader has read and kept, in order
EventsRead == SelectSeq(readLog, LAMBDA r : WellFormedEvent(r.b))

\* C3: the payloads of the well-formed event datagrams the reader has read
\* (and not dropped on cancellation) are on the Unsolicited stream in the
\* order read, each exactly once, with the marker stripped.
C3_EventsInOrder ==
    LET ids == {EventsRead[i].id : i \in 1..Len(EventsRead)}
    IN  SelectSeq(Stream, LAMBDA e : e.id \in ids)
          = [i \in 1..Len(EventsRead) |->
                [s |-> Payload(EventsRead[i].b), id |-> EventsRead[i].id]]

\* two different events have been read and received from the stream
C3_Witness ==
    /\ Len(rawLog) = 2 /\ Len(EventsRead) = 2
    /\ rawLog[1].s = Payload(dScanStarted)
    /\ rawLog[2].s = Payload(dConnected)

\* C4: the reader routes a datagram to the event queue if and only if its
\* first three bytes are '<', an ASCII digit, '>', and never puts a datagram
\* on both queues.
C4_RoutedIffWellFormed ==
    [][(rpc = "route" /\ rpc' # "route" /\ ~ctxDone /\ ~rerr)
         => /\ (rpc' = "send") <=> WellFormedEvent(BufString(0, n))
            /\ ~(rpc' = "send" /\ solicited' # solicited)]_vars

\* C5: OkCommand returns no error exactly when the reply its Command
\* delivered is "OK"; for any other reply it returns an error whose text is
\* the reply; an error of Command is returned unchanged.
C5_OkCommand ==
    ret.op = "OkCommand" =>
        IF ret.inner.err # NoErr
        THEN ret.err = ret.inner.err
        ELSE /\ (ret.err = NoErr) <=> (ret.inner.rsp = sOK)
             /\ ret.inner.rsp # sOK => ret.err.text = ret.inner.rsp

\* OkCommand has returned on the reply "FAIL"
C5_Witness ==
    ret.op = "OkCommand" /\ ret.via = "reply" /\ ret.inner.rsp = sFAIL

\* C6: FailCommand returns an error and an empty reply when the reply its
\* Command delivered is "FAIL"; any other reply, "OK" too, is returned
\* unchanged with no error.
C6_FailCommand ==
    (ret.op = "FailCommand" /\ ret.inner.err = NoErr) =>
        IF ret.inner.rsp = sFAIL
        THEN ret.err # NoErr /\ ret.rsp = <<>>
        ELSE ret.err = NoErr /\ ret.rsp = ret.inner.rsp

\* FailCommand has returned on the reply "OK"
C6_Witness ==
    ret.op = "FailCommand" /\ ret.via = "reply" /\ ret.inner.rsp = sOK

C8_BlockedReceiveReturns ==
    (clpc = "recv" /\ unsolicited = <<>> /\ ~unsolClosed /\ call.op = "Close")
        ~> (clpc # "recv")

\* C8, as far as the code goes: the receive returns unless the process has
\* ended on the reader's panic
C8_BlockedReceiveReturnsOrCrash ==
    (clpc = "recv" /\ unsolicited = <<>> /\ ~unsolClosed /\ call.op = "Close")
        ~> (clpc # "recv" \/ crashed)

\* C9: a Command whose write fails returns at once an error that wraps the
\* failure, and leaves the reply queue as it was.
C9_WriteError ==
    [][(cpc = "idle" /\ ncalls' # ncalls /\ connClosed)
         => /\ solicited' = solicited
            /\ call'.op # "Close"
                  => /\ cpc' = "idle"
                     /\ ret'.inner.rsp = <<>>
                     /\ ret'.inner.err.text = sCommandError \o ErrConnClosed.text
                     /\ ret'.inner.err # ErrTimeout]_vars

\* a write has failed while a reply was waiting in the reply queue
C9_Witness ==
    Returned /\ ret.via = "write" /\ solicited # <<>>

\* the prefix of each variant of typed event but the catch-all
VariantPrefix ==
    [OnConnectedEvent |-> pCONNECTED, OnDisconnectedEvent |-> pDISCONNECTED,
     OnNotFoundEvent |-> pNETWORK_NOT_FOUND, OnScanFailedEvent |-> pSCAN_FAILED,
     OnScanStartedEvent |-> pSCAN_STARTED, OnScanResultsEvent |-> pSCAN_RESULTS,
     OnScanEvent |-> pBSS_ADDED]

\* the variants whose prefix payload starts with
VariantsOf(payload) ==
    {v \in DOMAIN VariantPrefix : HasPrefix(payload, VariantPrefix[v])}

\* the typed events published so far: those received and the one on offer
Published == events \o (IF clpc = "publish" THEN <<evt>> ELSE <<>>)

\* C10: for every payload taken from the Unsolicited stream the classifier
\* publishes exactly one typed event, of the variant whose prefix the payload
\* starts with, of the catch-all variant if there is none, with the payload
\* as its raw text.
C10_Classification ==
    /\ Len(Published) = Len(rawLog)
    /\ \A i \in 1..Len(rawLog) :
          /\ Published[i].raw = rawLog[i].s
          /\ Published[i].id = rawLog[i].id
          /\ Cardinality(VariantsOf(rawLog[i].s)) <= 1
          /\ IF VariantsOf(rawLog[i].s) = {}
             THEN Published[i].type = "OnEvent"
             ELSE Published[i].type \in VariantsOf(rawLog[i].s)

\* a scan-results event has been published and received
C10_Witness ==
    /\ Len(events) = 1
    /\ events[1].type = "OnScanResultsEvent"
    /\ events[1].raw = Payload(dScanResults)

\* the texts Reason() gives in the tests
sInvalidAuth ==
    <<"2", ":", "i", "n", "v", "a", "l", "i", "d", "-", "a", "u", "t", "h">>
sNoReason ==
    <<"0", ":">>
sUnknownReason ==
    <<"1", "2", "3", "5", ":">>

\* the code of msg as C11 has it: the digits that follow the first reason=,
\* "0" when there is no reason= or no digit follows it
CodeOfFirstToken(msg) ==
    LET i == Index(msg, sReasonEq)
    IN  IF i = 0 \/ DigitRun(msg, i + Len(sReasonEq)) = <<>>
        THEN <<"0">>
        ELSE DigitRun(msg, i + Len(sReasonEq))

\* the code of msg as the code has it: the digits that follow the first
\* reason= that has a digit behind it and no line break before it
CodeOfFirstNumberedToken(msg) ==
    LET at == {j \in 1..(Len(msg) - Len(sReasonEq)) :
                 /\ SubSeq(msg, j, j + Len(sReasonEq) - 1) = sReasonEq
                 /\ msg[j + Len(sReasonEq)] \in Digits
                 /\ \A k \in 1..(j - 1) : msg[k] # "\n"}
    IN  IF at = {} THEN <<"0">>
        ELSE DigitRun(msg, (CHOOSE j \in at : \A k \in at : j <= k)
                              + Len(sReasonEq))

\* C11 as claimed: for every Disconnected message Reason() is code:label,
\* code the digits that follow the reason= token, "0" when the token is
\* absent or is followed by a non-digit, label the table's entry for code,
\* empty when it has none.
C11_ReasonOfToken ==
    disc.type = "OnDisconnectedEvent" =>
        disc.reason = CodeOfFirstToken(disc.raw) \o <<":">>
                        \o commonReasonCodes(CodeOfFirstToken(disc.raw))

\* C11, amended: Reason() is code:label, code the digits that follow the
\* first reason= that has a digit behind it and is on the line of the event
\* name, "0" when there is none, label the table's entry for code, empty
\* when it has none; the four messages of the tests give "2:invalid-auth",
\* "0:", "1235:" and "0:".
C11_ReasonOfNumberedToken ==
    disc.type = "OnDisconnectedEvent" =>
        /\ disc.reason = CodeOfFirstNumberedToken(disc.raw) \o <<":">>
                          \o commonReasonCodes(CodeOfFirstNumberedToken(disc.raw))
        /\ disc.raw = mDisconnected \o mReason \o <<"2">>
              => disc.reason = sInvalidAuth
        /\ disc.raw = mDisconnected => disc.reason = sNoReason
        /\ disc.raw = mDisconnected \o mReason1235
              => disc.reason = sUnknownReason
        /\ disc.raw = mDisconnected \o mReasonAsdf4
              => disc.reason = sNoReason

\* NewOnDisconnectedEvent has been called with a two-digit code of the table
\* and more fields behind it
C11_Witness ==
    /\ disc.raw = mDisconnected \o mReason \o <<"1", "5">> \o mLocallyGenerated
    /\ disc.reason = <<"1", "5", ":">> \o commonReasonCodes(<<"1", "5">>)
    /\ commonReasonCodes(<<"1", "5">>) # <<>>

\* the network and the ssid a call was made with, from its command
NetworkOf(cmd) == Split(cmd, <<" ">>)[2]
SsidOf(cmd) ==
    SubSeq(cmd, Len(SetSSIDCmd(NetworkOf(cmd), <<>>)), Len(cmd) - 1)

\* the networks added and not removed, in the order they were added, each
\* with the ssid last set, after the calls h, of which those that returned
\* an error count for nothing
RECURSIVE NetworksAfter(_)
NetworksAfter(h) ==
    IF h = <<>> THEN <<>>
    ELSE LET e == h[Len(h)]
             before == NetworksAfter(SubSeq(h, 1, Len(h) - 1))
         IN  IF e.err # NoErr THEN before
             ELSE CASE e.op = "AddNetwork" ->
                         Append(before, [ID |-> e.rsp, SSID |-> <<>>])
                    [] e.op = "SetSSID" ->
                         [i \in 1..Len(before) |->
                            IF before[i].ID = NetworkOf(e.cmd)
                            THEN [before[i] EXCEPT !.SSID = SsidOf(e.cmd)]
                            ELSE before[i]]
                    [] e.op = "RemoveNetwork" ->
                         SelectSeq(before,
                                   LAMBDA x : x.ID # NetworkOf(e.cmd))
                    [] OTHER -> before

\* no call so far has timed out
NoTimeout == \A i \in 1..Len(hist) : hist[i].via # "timeout"

\* C12: after any sequence of AddNetwork, SetSSID, SetPSK and RemoveNetwork
\* calls (none of which timed out), ListNetworks returns one Network{id,
\* ssid} per network added and not removed, in daemon order, with the ssid
\* last set: [Network{"0", "foossid"}] after one network was added and
\* given that ssid, nothing after RemoveNetwork("0").
C12_ListIsWhatWasAdded ==
    (/\ hist # <<>> /\ NoTimeout
     /\ hist[Len(hist)].op = "ListNetworks"
     /\ hist[Len(hist)].err = NoErr)
        => hist[Len(hist)].nets
             = NetworksAfter(SubSeq(hist, 1, Len(hist) - 1))

\* only AddNetwork has been called so far
OnlyAddNetwork == \A i \in 1..Len(hist) : hist[i].op = "AddNetwork"

\* C13: N AddNetwork calls, one after another against a fresh daemon,
\* return the ids "0", "1", ..., "N-1" in that order: the k-th call, if it
\* returns an id, returns k-1.
C13_IdsCountUp ==
    OnlyAddNetwork =>
        \A k \in 1..Len(hist) :
            hist[k].err = NoErr => hist[k].rsp = Itoa(k - 1)

\* C13, as far as the code goes: the ids count up while no call times out
C13_IdsCountUpNoTimeout ==
    (OnlyAddNetwork /\ NoTimeout) =>
        \A k \in 1..Len(hist) :
            hist[k].err = NoErr /\ hist[k].rsp = Itoa(k - 1)

\* a reply to LIST_NETWORKS with a line after the first that has fewer than
\* two fields
MalformedList(rsp) ==
    LET lines == Tail(Split(rsp, <<"\n">>))
    IN  \E i \in 1..Len(lines) : Len(Split(lines[i], <<"\t">>)) < 2

\* C20: when a data line of the LIST_NETWORKS reply has fewer than two
\* tab-separated fields, ListNetworks returns a parse error: the process
\* goes on, and the call returns an error and no list.
C20_MalformedLineIsError ==
    (/\ ret.op = "ListNetworks" /\ ret.inner.err = NoErr
     /\ MalformedList(ret.inner.rsp))
        => /\ ~crashed
           /\ cpc = "idle" => (ret.err # NoErr /\ ret.nets = <<>>)


\* a datagram that begins with '<' and is shorter than three bytes, or whose
\* third byte is not '>'
MalformedMarker(d) ==
    Len(d) >= 1 /\ d[1] = "<" /\ (Len(d) < 3 \/ d[3] # ">")

\* C14: whatever was read before it, a datagram that begins with '<' but is
\* shorter than three bytes or whose third byte is not '>' is dropped: the
\* reader puts nothing on either queue, does not panic and does not exit, and
\* goes back to reading.
C14_MalformedMarkerDropped ==
    [][(/\ rpc = "route" /\ rpc' # "route" /\ ~ctxDone /\ ~rerr
        /\ MalformedMarker(BufString(0, n)))
         => /\ rpc' = "read"
            /\ ~panicking'
            /\ UNCHANGED <<solicited, unsolicited>>]_vars


\* a datagram that is not an event: it does not begin with '<'
NonEvent(d) == d = <<>> \/ d[1] # "<"

\* C17: a non-event datagram the reader routes while no Command is waiting
\* for a reply is dropped: it is not put on the reply queue, and so a later
\* Command cannot return it.
C17_StrayReplyDropped ==
    [][(/\ rpc = "route" /\ rpc' # "route" /\ ~ctxDone /\ ~rerr
        /\ NonEvent(BufString(0, n))
        /\ cpc # "select")
         => solicited' = solicited]_vars


\* C18: the reply queue never holds more than one reply, and a non-event
\* datagram the reader routes while a reply is queued is dropped: the queue
\* keeps the reply it holds and the reader goes on to read the next datagram
\* in that same step, without waiting.
C18_OneReplyQueued ==
    /\ [](Len(solicited) <= 1)
    /\ [][(/\ rpc = "route" /\ rpc' # "route" /\ ~ctxDone /\ ~rerr
           /\ NonEvent(BufString(0, n))
           /\ solicited # <<>>)
            => (solicited' = solicited /\ rpc' = "read")]_vars

\* a reply is queued, and a non-event datagram read after it has been routed
\* and is not in the queue
C18_Witness ==
    /\ Len(solicited) = 1 /\ rpc = "read"
    /\ \E i, j \in 1..Len(readLog) :
          /\ i < j
          /\ readLog[i].id = solicited[1].id
          /\ NonEvent(readLog[j].b)


\* C19: the typed events the consumer has accepted are, in order, the typed
\* forms of the raw payloads the classifier took from the Unsolicited stream;
\* at most one payload taken is not yet accepted, and the classifier takes a
\* payload only when the consumer has accepted every event before it.
C19_OrderedHandOff ==
    /\ [](/\ Len(rawLog) - Len(events) = (IF clpc = "publish" THEN 1 ELSE 0)
          /\ \A i \in 1..Len(events) :
                /\ events[i].id = rawLog[i].id
                /\ events[i].raw = rawLog[i].s)
    /\ [][rawLog' # rawLog
            => /\ clpc = "recv" /\ Len(events) = Len(rawLog)
               /\ rawLog' = Append(rawLog, Head(unsolicited))]_vars

\* the consumer has not accepted a typed event, and the next raw payload
\* waits on the Unsolicited stream behind it
C19_Witness ==
    /\ clpc = "publish" /\ evt.raw = Payload(dScanStarted)
    /\ Len(unsolicited) = 1 /\ unsolicited[1].s = Payload(dConnected)
    /\ events = <<>>


\* C15: the reader waits nowhere but in the transport read: when it has an
\* event to put on the event queue, the queue has room for it, whatever the
\* number of events nobody has consumed.
C15_ReaderNeverWaitsOnConsumer ==
    rpc = "send" => Len(unsolicited) < UnsolicitedCap


\* C16: once Close has cancelled the context and closed the transport, the
\* reader eventually exits, and the reply queue and the event queue are
\* closed.
C16_ReaderExitsAfterClose ==
    (ctxDone /\ connClosed) ~> (rpc = "exited" /\ solClosed /\ unsolClosed)


\* the ids AddNetwork has returned so far, in the order of the calls
IdsAdded ==
    LET added == SelectSeq(hist, LAMBDA e : e.op = "AddNetwork" /\ e.err = NoErr)
    IN  [k \in 1..Len(added) |-> Atoi(added[k].rsp)]

\* only AddNetwork and RemoveNetwork have been called so far
OnlyAddAndRemove ==
    \A i \in 1..Len(hist) : hist[i].op \in {"AddNetwork", "RemoveNetwork"}

\* C21: over any sequence of AddNetwork and RemoveNetwork calls against a
\* fresh daemon (none of which timed out), the ids AddNetwork returns are
\* numbers, the first is 0, and each is greater than every id returned
\* before it: no id is used twice.
C21_IdsNeverReused ==
    (OnlyAddAndRemove /\ NoTimeout) =>
        /\ \A k \in 1..Len(IdsAdded) : IdsAdded[k].ok
        /\ IdsAdded # <<>> => IdsAdded[1].v = 0
        /\ \A j, k \in 1..Len(IdsAdded) :
              j < k => IdsAdded[j].v < IdsAdded[k].v


\* C22: the typed event stream is never closed: when the raw Unsolicited
\* stream has closed and the classifier goroutine has ended, Events() is
\* still open, and the consumer is given nothing more, not even the end of
\* the stream.
C22_EventsNeverClosed ==
    /\ [](~eventsClosed)
    /\ [][clpc = "done" => (events' = events /\ ~eventsClosed')]_vars

\* Close has run, the raw stream is closed and the classifier goroutine has
\* ended after it published an event
C22_Witness ==
    /\ clpc = "done" /\ unsolClosed /\ ctxDone
    /\ Len(events) = 1 /\ ~eventsClosed

=============================================================================
